---- MODULE Spec2Model ----
(***************************************************************************)
(* A model of src/index.js: the start-up configuration of the addon (the   *)
(* manifest resolver), the Fastify preHandler hook and the five routes,    *)
(* and the M3U8 playlist serializer.                                       *)
(*                                                                         *)
(* JavaScript strings that the code inspects character by character        *)
(* (manifest URLs, path parameters, the format query value, stream titles) *)
(* are sequences of one-character strings, so that trim(), endsWith(),     *)
(* the regular expressions and isNaN() are computed, not assumed.          *)
(***************************************************************************)
EXTENDS Naturals, Sequences, FiniteSets

VARIABLES
  MANIFEST_URL,    \* process.env.MANIFEST_URL
  ADDON_BASE_URL,  \* index.js:13
  ADDON_MANIFEST,  \* index.js:14
  startPc,         \* position of start() (index.js:441-469)
  req,             \* per in-flight request: the handler's position, its input and its reply
  resolveIn,       \* argument of a direct call of getBaseUrlFromManifest
  resolveOut,      \* its outcome
  m3uIn,           \* argument of a direct call of streamsToM3U8
  m3uOut           \* its return value

vars == <<MANIFEST_URL, ADDON_BASE_URL, ADDON_MANIFEST, startPc, req,
          resolveIn, resolveOut, m3uIn, m3uOut>>

----------------------------------------------------------------------------
(* Bounds of the model *)

\* number of pieces appended to the origin to build a manifest URL
MaxPieces == 3
\* length of the :imdb path parameter
MaxImdbLen == 4
\* length of the :season / :episode path parameter
MaxNumLen == 2
\* length of the stream list handed to streamsToM3U8
MaxStreams == 2

----------------------------------------------------------------------------
(* JavaScript values *)

\* null and undefined where a string is expected (no string holds these characters)
Null == <<"<null>">>
Undefined == <<"<undefined>">>
\* JSON null, the value of `let ADDON_MANIFEST = null` and of a `null` body
JsonNull == [type |-> "null"]
\* nothing returned or thrown yet
Pending == [state |-> "pending"]

\* JavaScript truthiness of a string-or-null value
Truthy(x) == x # Null /\ x # Undefined /\ x # <<>>

Digits == {"0", "1", "2", "3", "4", "5", "6", "7", "8", "9"}
\* WhiteSpace and LineTerminator characters (those String.prototype.trim and
\* Number() strip) that the inputs below can hold
WhiteSpace == {" ", "\t", "\n", "\r"}

AllDigits(s) == \A i \in 1..Len(s) : s[i] \in Digits

EndsWith(s, p) == Len(s) >= Len(p) /\ SubSeq(s, Len(s) - Len(p) + 1, Len(s)) = p
\* String.prototype.includes
Includes(s, p) ==
  \E i \in 1..(Len(s) + 1) : i + Len(p) - 1 <= Len(s) /\ SubSeq(s, i, i + Len(p) - 1) = p
DropLast(s, n) == SubSeq(s, 1, Len(s) - n)

RECURSIVE TrimStart(_)
TrimStart(s) == IF s # <<>> /\ Head(s) \in WhiteSpace THEN TrimStart(Tail(s)) ELSE s
RECURSIVE TrimEnd(_)
TrimEnd(s) == IF s # <<>> /\ s[Len(s)] \in WhiteSpace THEN TrimEnd(DropLast(s, 1)) ELSE s
\* String.prototype.trim
Trim(s) == TrimEnd(TrimStart(s))

\* all strings over `chars` of length 1..n
StringsUpTo(chars, n) == UNION {[1..k -> chars] : k \in 1..n}

----------------------------------------------------------------------------
(* getBaseUrlFromManifest, index.js:17-31 *)

ManifestSuffix == <<"/", "m", "a", "n", "i", "f", "e", "s", "t", ".", "j", "s", "o", "n">>

\* manifestUrl.replace(/\/$/, '')
StripTrailingSlash(s) == IF EndsWith(s, <<"/">>) THEN DropLast(s, 1) ELSE s

Threw(msg) == [threw |-> TRUE, message |-> msg]
Returned(v) == [threw |-> FALSE, value |-> v]

\* a plausible slip: the trailing slash is not removed before the suffix test
getBaseUrlFromManifest_KeepSlash(manifestUrl) ==
  LET url == Trim(manifestUrl) IN
  IF EndsWith(url, ManifestSuffix)
    THEN Returned(DropLast(url, Len(ManifestSuffix)))
    ELSE Threw("Invalid manifest URL format: Invalid manifest URL. Must end with /manifest.json")

getBaseUrlFromManifest(manifestUrl) ==
  LET url == StripTrailingSlash(Trim(manifestUrl)) IN
  IF EndsWith(url, ManifestSuffix)
    THEN Returned(DropLast(url, Len(ManifestSuffix)))
    ELSE Threw("Invalid manifest URL format: Invalid manifest URL. Must end with /manifest.json")

\* Manifest URLs: an absolute origin, optionally after white space, followed by up to
\* MaxPieces of the pieces below (so every URL is one fetch() accepts).
Origin == <<"h", ":", "/", "/", "a">>
UrlPieces ==
  { <<"/">>, <<" ">>, <<"/", "p">>, ManifestSuffix, Tail(ManifestSuffix) }

RECURSIVE PieceStrings(_, _)
PieceStrings(pieces, n) ==
  IF n = 0 THEN {<<>>}
  ELSE LET prev == PieceStrings(pieces, n - 1) IN
       prev \cup {s \o p : s \in prev, p \in pieces}

ManifestUrls ==
  {lead \o Origin \o t : lead \in {<<>>, <<" ">>}, t \in PieceStrings(UrlPieces, MaxPieces)}

\* a direct call of the resolver
Resolve ==
  /\ resolveOut = Pending
  /\ resolveOut' = getBaseUrlFromManifest(resolveIn)
  /\ UNCHANGED <<MANIFEST_URL, ADDON_BASE_URL, ADDON_MANIFEST, startPc, req,
                 resolveIn, m3uIn, m3uOut>>

\* the next call, on another argument
ResolveAgain ==
  /\ resolveOut # Pending
  /\ resolveIn' \in ManifestUrls
  /\ resolveOut' = Pending
  /\ UNCHANGED <<MANIFEST_URL, ADDON_BASE_URL, ADDON_MANIFEST, startPc, req,
                 m3uIn, m3uOut>>

----------------------------------------------------------------------------
(* streamsToM3U8, index.js:203-243 *)

\* the text of a string literal of the source, character by character
Str_Unknown == <<"U", "n", "k", "n", "o", "w", "n">>
Str_UnknownSource ==
  <<"U", "n", "k", "n", "o", "w", "n", " ", "S", "o", "u", "r", "c", "e">>
Str_Stream == <<"S", "t", "r", "e", "a", "m", " ">>
Str_2160p == <<"2", "1", "6", "0", "p">>
Str_4K == <<"4", "K">>
Str_1080p == <<"1", "0", "8", "0", "p">>
Str_720p == <<"7", "2", "0", "p">>
Str_480p == <<"4", "8", "0", "p">>
Str_GB == <<"G", "B">>
Str_Dash == <<" ", "-", " ">>

Bandwidth4K == 20000000
Bandwidth1080p == 8000000
Bandwidth720p == 5000000
Bandwidth480p == 2500000
BandwidthDefault == 5000000

\* a one-digit number as the template literal prints it
DigitChar(n) == <<"0", "1", "2", "3", "4", "5", "6", "7", "8", "9">>[n + 1]

\* the last index of the run of characters of `class` that starts at i (i - 1: none)
RECURSIVE RunEnd(_, _, _)
RunEnd(s, i, class) ==
  IF i <= Len(s) /\ s[i] \in class THEN RunEnd(s, i + 1, class) ELSE i - 1

\* s.match(/(<class>+<tail>)/): the leftmost match, the class part greedy. No
\* character of `tail` is in `class`, so a match at i takes the whole run at i.
MatchesAt(s, i, class, tail) ==
  LET j == RunEnd(s, i, class) IN
  /\ j >= i
  /\ j + Len(tail) <= Len(s)
  /\ SubSeq(s, j + 1, j + Len(tail)) = tail

RegexMatch(s, class, tail) ==
  LET starts == {i \in 1..Len(s) : MatchesAt(s, i, class, tail)} IN
  IF starts = {} THEN Null
  ELSE LET i == CHOOSE k \in starts : \A l \in starts : k <= l IN
       SubSeq(s, i, RunEnd(s, i, class) + Len(tail))

\* const streamTitle = stream.title || stream.name || `Stream ${index + 1}`
StreamTitle(stream, index) ==
  IF Truthy(stream.title) THEN stream.title
  ELSE IF Truthy(stream.name) THEN stream.name
  ELSE Str_Stream \o <<DigitChar(index + 1)>>

\* const streamName = stream.name || 'Unknown Source'
StreamName(stream) == IF Truthy(stream.name) THEN stream.name ELSE Str_UnknownSource

\* const quality = qualityMatch ? qualityMatch[1] : 'Unknown'
Quality(streamTitle) ==
  LET qualityMatch == RegexMatch(streamTitle, Digits, <<"p">>) IN
  IF qualityMatch # Null THEN qualityMatch ELSE Str_Unknown

\* const size = sizeMatch ? sizeMatch[1] : ''
Size(streamTitle) ==
  LET sizeMatch == RegexMatch(streamTitle, Digits \cup {"."}, Str_GB) IN
  IF sizeMatch # Null THEN sizeMatch ELSE <<>>

\* index.js:223-232
Bandwidth(quality) ==
  IF Includes(quality, Str_2160p) \/ Includes(quality, Str_4K) THEN Bandwidth4K
  ELSE IF Includes(quality, Str_1080p) THEN Bandwidth1080p
  ELSE IF Includes(quality, Str_720p) THEN Bandwidth720p
  ELSE IF Includes(quality, Str_480p) THEN Bandwidth480p
  ELSE BandwidthDefault

\* index.js:235
DisplayName(streamName, quality, size) ==
  streamName \o Str_Dash \o quality \o (IF size # <<>> THEN Str_Dash \o size ELSE <<>>)

\* The lines one stream adds (index.js:237-239). A line is a record of the parts
\* the template literal interpolates; the fixed text between them is its kind.
EntryBlock(stream, index) ==
  LET streamTitle == StreamTitle(stream, index)
      streamName == StreamName(stream)
      quality == Quality(streamTitle)
      displayName == DisplayName(streamName, quality, Size(streamTitle))
  IN << [kind |-> "#EXTINF", tvgName |-> displayName, groupTitle |-> streamName,
         title |-> displayName],
        [kind |-> "#EXT-X-STREAM-INF", bandwidth |-> Bandwidth(quality)],
        [kind |-> "url", url |-> stream.url],
        [kind |-> "blank"] >>

M3U8Header ==
  << [kind |-> "#EXTM3U"], [kind |-> "#EXT-X-VERSION", version |-> 3], [kind |-> "blank"] >>

\* streams.forEach((stream, index) => ...), index from 0
RECURSIVE EntryBlocks(_, _)
EntryBlocks(streams, index) ==
  IF index >= Len(streams) THEN <<>>
  ELSE EntryBlock(streams[index + 1], index) \o EntryBlocks(streams, index + 1)

streamsToM3U8(streams) ==
  IF Len(streams) = 0 THEN M3U8Header ELSE M3U8Header \o EntryBlocks(streams, 0)

\* Stream titles: up to MaxTitlePieces of these pieces
TitlePieces ==
  { Str_2160p, Str_1080p, Str_720p, Str_480p, Str_4K, <<"1", "4", "4", "0", "p">>,
    <<"A", " ">>, <<"2", ".", "1", "G", "B">> }
MaxTitlePieces == 2
Titles == PieceStrings(TitlePieces, MaxTitlePieces)

SourceA ==
  <<"S", "o", "u", "r", "c", "e", " ", "A", " ", "1", "0", "8", "0", "p", " ",
    "2", ".", "1", "G", "B">>
SourceB == <<"S", "o", "u", "r", "c", "e", " ", "B", " ", "7", "2", "0", "p">>

\* the Stream records of an upstream answer (spec section 3: url, title, name)
M3UStreams ==
  {[url |-> "http://a.example/1.mp4", title |-> t, name |-> <<"N">>] :
     t \in Titles \cup {SourceA}}
  \cup {[url |-> "http://b.example/2.mkv", title |-> t, name |-> n] :
          t \in {Undefined, SourceB}, n \in {Undefined, <<"N">>}}

StreamLists(pool, n) == UNION {[1..k -> pool] : k \in 0..n}

\* a direct call of the serializer
Convert ==
  /\ m3uOut = Pending
  /\ m3uOut' = [state |-> "returned", content |-> streamsToM3U8(m3uIn)]
  /\ UNCHANGED <<MANIFEST_URL, ADDON_BASE_URL, ADDON_MANIFEST, startPc, req,
                 resolveIn, resolveOut, m3uIn>>

----------------------------------------------------------------------------
(* start and initializeAddon, index.js:34-59 and 441-469 *)

Manifests == {JsonNull, [type |-> "object", name |-> "Addon", version |-> "1.0.0"]}

\* start() up to its first await: reads the environment; with a manifest URL it
\* calls initializeAddon, which awaits fetch(manifestUrl); without one it warns
\* and goes on to listen.
Start ==
  /\ startPc = "start"
  /\ startPc' = IF Truthy(MANIFEST_URL) THEN "fetchManifest" ELSE "listen"
  /\ UNCHANGED <<MANIFEST_URL, ADDON_BASE_URL, ADDON_MANIFEST, req,
                 resolveIn, resolveOut, m3uIn, m3uOut>>

\* fetch(manifestUrl) settles: it rejects, or answers with a status that is not
\* ok (both thrown out of initializeAddon and caught by start, index.js:449),
\* or answers ok and initializeAddon awaits response.json().
ManifestFetched ==
  /\ startPc = "fetchManifest"
  /\ \E outcome \in {"rejected", "notOk", "ok"} :
       startPc' = IF outcome = "ok" THEN "parseManifest" ELSE "listen"
  /\ UNCHANGED <<MANIFEST_URL, ADDON_BASE_URL, ADDON_MANIFEST, req,
                 resolveIn, resolveOut, m3uIn, m3uOut>>

\* a plausible slip: the manifest is stored before the base URL is resolved
initializeAddonTail_AssignFirst(manifestUrl, manifest) ==
  LET r == getBaseUrlFromManifest(manifestUrl) IN
  IF r.threw
    THEN [base |-> ADDON_BASE_URL, manifest |-> manifest]
    ELSE [base |-> r.value, manifest |-> manifest]

\* initializeAddon after response.json() (index.js:44-47): the globals as they
\* are when initializeAddon returns or throws
initializeAddonTail(manifestUrl, manifest) ==
  LET r == getBaseUrlFromManifest(manifestUrl) IN
  IF r.threw
    THEN [base |-> ADDON_BASE_URL, manifest |-> ADDON_MANIFEST]
    ELSE [base |-> r.value, manifest |-> manifest]

\* response.json() settles: it rejects (unparsable body), or yields the manifest;
\* then the base URL is resolved and, if that does not throw, both globals are
\* assigned. Whatever is thrown (also by the logging of a null manifest's name,
\* index.js:50, after the assignment) is caught by start.
ManifestParsed ==
  /\ startPc = "parseManifest"
  /\ \/ UNCHANGED <<ADDON_BASE_URL, ADDON_MANIFEST>>
     \/ \E manifest \in Manifests :
          LET g == initializeAddonTail(MANIFEST_URL, manifest) IN
          /\ ADDON_BASE_URL' = g.base
          /\ ADDON_MANIFEST' = g.manifest
  /\ startPc' = "listen"
  /\ UNCHANGED <<MANIFEST_URL, req, resolveIn, resolveOut, m3uIn, m3uOut>>

\* fastify.listen settles: the server listens, or listen rejects and the
\* process exits (index.js:465-467)
Listen ==
  /\ startPc = "listen"
  /\ \E ok \in BOOLEAN : startPc' = IF ok THEN "listening" ELSE "exited"
  /\ UNCHANGED <<MANIFEST_URL, ADDON_BASE_URL, ADDON_MANIFEST, req,
                 resolveIn, resolveOut, m3uIn, m3uOut>>

Slots == {1, 2}
Idle == [pc |-> "idle"]

InitProcess ==
  /\ ADDON_BASE_URL = Null
  /\ ADDON_MANIFEST = JsonNull
  /\ startPc = "start"
  /\ req = [s \in Slots |-> Idle]

InitNoResolve == resolveIn = <<>> /\ resolveOut = Returned(<<>>)
InitNoM3U == m3uIn = <<>> /\ m3uOut = [state |-> "returned", content |-> <<>>]

----------------------------------------------------------------------------
(* Requests: the preHandler hook and the routes, index.js:246-438 *)

Str_m3u8 == <<"m", "3", "u", "8">>
Str_StreamMovie ==
  <<"/", "s", "t", "r", "e", "a", "m", "/", "m", "o", "v", "i", "e", "/">>
Str_StreamSeries ==
  <<"/", "s", "t", "r", "e", "a", "m", "/", "s", "e", "r", "i", "e", "s", "/">>
Str_Json == <<".", "j", "s", "o", "n">>

\* A request is [route, imdb, season, episode, query]: the route the router
\* matched, its decoded path parameters (Undefined where the route has none) and
\* its query string, [present |-> FALSE] when the URL has no "?", else
\* [present |-> TRUE, format |-> f] for "?format=<f>" (f = Undefined: "?" alone).
NoQuery == [present |-> FALSE]
FormatQuery(f) == [present |-> TRUE, format |-> f]

\* request.query.format
Format(r) == IF r.query.present THEN r.query.format ELSE Undefined

\* request.url: the raw URL, path and query string, as a list of its parts
Path(r) ==
  CASE r.route = "root" -> <<"/">>
    [] r.route = "health" -> <<"/", "health">>
    [] r.route = "info" -> <<"/", "info">>
    [] r.route = "movie" -> <<"/", "movie", "/">> \o r.imdb
    [] r.route = "tv" ->
         <<"/", "tv", "/">> \o r.imdb \o <<"/">> \o r.season \o <<"/">> \o r.episode
RequestUrl(r) ==
  Path(r) \o
  (IF ~r.query.present THEN <<>>
   ELSE IF r.query.format = Undefined THEN <<"?">>
   ELSE <<"?", "format", "=">> \o r.query.format)

\* const skipRoutes = ['/', '/health', '/info']
skipRoutes == { <<"/">>, <<"/", "health">>, <<"/", "info">> }

\* What a hook or a handler did with the request: it sent `reply`, or it threw
\* out of the handler (escaped), or neither (the hook let the request through).
NoReply == [code |-> 0, type |-> "none", error |-> "", message |-> "", content |-> <<>>]
Sent(code, type, error, message, content) ==
  [sent |-> TRUE, escaped |-> FALSE,
   reply |-> [code |-> code, type |-> type, error |-> error, message |-> message,
              content |-> content]]
NotSent == [sent |-> FALSE, escaped |-> FALSE, reply |-> NoReply]
Escaped == [sent |-> FALSE, escaped |-> TRUE, reply |-> NoReply]

\* index.js:246-256. A reply sent by the hook ends the request: Fastify does not
\* run the route handler once reply.sent holds.
preHandler(r) ==
  IF RequestUrl(r) \notin skipRoutes /\ ~Truthy(ADDON_BASE_URL)
    THEN Sent(503, "json", "Addon not configured",
              "Please set MANIFEST_URL environment variable", <<>>)
    ELSE NotSent

\* imdb.match(/^tt\d+$/)
MatchesImdb(imdb) ==
  /\ Len(imdb) >= 3
  /\ imdb[1] = "t" /\ imdb[2] = "t"
  /\ AllDigits(SubSeq(imdb, 3, Len(imdb)))

\* isNaN(x) on a string x is Number(x) being NaN: x, trimmed, is neither empty
\* (Number('') is 0) nor a StrNumericLiteral: a signed decimal literal or
\* Infinity, or an unsigned binary, octal or hexadecimal integer literal.
IsMantissa(m) ==
  \/ Len(m) >= 1 /\ AllDigits(m)
  \/ /\ Len(m) >= 2
     /\ \E k \in 1..Len(m) :
          /\ m[k] = "."
          /\ AllDigits(SubSeq(m, 1, k - 1))
          /\ AllDigits(SubSeq(m, k + 1, Len(m)))
IsExponent(x) ==
  /\ Len(x) >= 2
  /\ x[1] \in {"e", "E"}
  /\ LET r == Tail(x)
         d == IF Head(r) \in {"+", "-"} THEN Tail(r) ELSE r
     IN Len(d) >= 1 /\ AllDigits(d)
IsUnsignedDecimal(t) ==
  \/ t = <<"I", "n", "f", "i", "n", "i", "t", "y">>
  \/ IsMantissa(t)
  \/ \E k \in 2..Len(t) : IsMantissa(SubSeq(t, 1, k - 1)) /\ IsExponent(SubSeq(t, k, Len(t)))
IsNonDecimalInteger(t) ==
  /\ Len(t) >= 3
  /\ t[1] = "0"
  /\ LET d == SubSeq(t, 3, Len(t)) IN
     \/ t[2] \in {"b", "B"} /\ \A i \in 1..Len(d) : d[i] \in {"0", "1"}
     \/ t[2] \in {"o", "O"} /\ \A i \in 1..Len(d) : d[i] \in {"0", "1", "2", "3", "4", "5", "6", "7"}
     \/ t[2] \in {"x", "X"} /\
          \A i \in 1..Len(d) :
            d[i] \in Digits \cup {"a", "b", "c", "d", "e", "f", "A", "B", "C", "D", "E", "F"}
IsStrNumericLiteral(t) ==
  \/ IsNonDecimalInteger(t)
  \/ IsUnsignedDecimal(IF t # <<>> /\ Head(t) \in {"+", "-"} THEN Tail(t) ELSE t)

isNaN(x) == LET t == Trim(x) IN ~(t = <<>> \/ IsStrNumericLiteral(t))

\* a plausible slip: a prefix test, /^tt\d/, in place of /^tt\d+$/
ValidMovieParams_Prefix(r) ==
  Len(r.imdb) >= 3 /\ r.imdb[1] = "t" /\ r.imdb[2] = "t" /\ r.imdb[3] \in Digits

\* index.js:265
ValidMovieParams(r) == MatchesImdb(r.imdb)

\* index.js:313 and 320 (the two 400 replies differ only in their text)
TvParamsError(r) ==
  IF ~MatchesImdb(r.imdb) THEN "Invalid IMDb ID format. Must be in format: ttXXXXXXX"
  ELSE IF isNaN(r.season) \/ isNaN(r.episode) THEN "Season and episode must be valid numbers"
  ELSE ""

\* index.js:271 and 326
StreamUrl(r) ==
  IF r.route = "movie"
    THEN ADDON_BASE_URL \o Str_StreamMovie \o r.imdb \o Str_Json
    ELSE ADDON_BASE_URL \o Str_StreamSeries \o r.imdb \o <<":">> \o r.season
           \o <<":">> \o r.episode \o Str_Json

\* The outcome of fetch(streamUrl) and response.json(), and fetchStremioStreams
\* on it (index.js:62-72): the parsed body, or an Error that wraps the cause.
fetchStremioStreams(outcome) ==
  CASE outcome.kind = "rejected" -> Threw("Error fetching Stremio addon: fetch failed")
    [] outcome.kind = "notOk" ->
         Threw("Error fetching Stremio addon: Failed to fetch streams: Not Found")
    [] outcome.kind = "badJson" ->
         Threw("Error fetching Stremio addon: Unexpected token < in JSON at position 0")
    [] outcome.kind = "json" -> Returned(outcome.body)

\* a plausible slip: the last stream is played
FirstStream_Last(streams) == IF Len(streams) = 0 THEN JsonNull ELSE streams[Len(streams)]

\* const firstStream = data.streams[0] (undefined on an empty list, here JsonNull)
FirstStream(streams) == IF Len(streams) = 0 THEN JsonNull ELSE streams[1]

\* a plausible slip: an empty list is not told from a list with streams
NoStreams_MissingOnly(data) == ~data.hasStreams

\* !data.streams || data.streams.length === 0
NoStreams(data) == ~data.hasStreams \/ Len(data.streams) = 0

\* The try block of a stream route after fetchStremioStreams settled
\* (index.js:272-295 and 327-356): the reply it sends, or what it throws.
\* `data.streams` on a null body throws a TypeError.
RouteTry(r, fetched) ==
  IF fetched.threw THEN fetched
  ELSE LET data == fetched.value IN
    IF data = JsonNull
      THEN Threw("Cannot read properties of null (reading 'streams')")
    ELSE IF NoStreams(data)
      THEN Returned(Sent(404, "json",
                         IF r.route = "movie" THEN "No streams found for this movie"
                         ELSE "No streams found for this episode", "", <<>>))
    ELSE IF Format(r) = Str_m3u8
      THEN Returned(Sent(200, "application/vnd.apple.mpegurl", "", "",
                         streamsToM3U8(data.streams)))
    ELSE LET firstStream == FirstStream(data.streams) IN
      IF firstStream = JsonNull
        THEN Threw("Cannot read properties of undefined (reading 'url')")
        ELSE Returned(Sent(200, "text/html", "", "",
                           [src |-> firstStream.url, route |-> r.route, imdb |-> r.imdb,
                            season |-> r.season, episode |-> r.episode]))

\* a plausible slip: the catch block logs and rethrows
RouteCatch_Rethrow(r, error) == Escaped

\* index.js:297-303 and 358-364
RouteCatch(r, error) ==
  Sent(500, "json",
       IF r.route = "movie" THEN "Failed to fetch movie streams"
       ELSE "Failed to fetch TV show streams",
       error.message, <<>>)

\* a stream route from the settling of the fetch to its end
RouteAfterFetch(r, fetched) ==
  LET t == RouteTry(r, fetched) IN
  IF t.threw THEN RouteCatch(r, t) ELSE t.value

\* index.js:368-438: /info, /health and / return a JSON object (status 200)
InfoReply == Sent(200, "json", "", "", [configured |-> Truthy(ADDON_BASE_URL)])

\* The state of a request: pc "done" with what was sent, or pc "awaitFetch"
\* inside fetchStremioStreams. upstreamCalls counts the requests made to the addon.
Done(r, did, calls, fetched) ==
  [pc |-> "done", request |-> r, upstreamCalls |-> calls, fetched |-> fetched,
   replies |-> IF did.sent THEN 1 ELSE 0, escaped |-> did.escaped, reply |-> did.reply]
Awaiting(r) ==
  [pc |-> "awaitFetch", request |-> r, upstreamCalls |-> 1, fetched |-> Pending,
   streamUrl |-> StreamUrl(r), replies |-> 0, escaped |-> FALSE, reply |-> NoReply]

\* A request from its arrival to its first await or its end: the hook, then
\* the route handler up to `await fetchStremioStreams(streamUrl)`.
HandleRequest(r) ==
  LET pre == preHandler(r) IN
  IF pre.sent THEN Done(r, pre, 0, Pending)
  ELSE IF r.route \in {"root", "health", "info"} THEN Done(r, InfoReply, 0, Pending)
  ELSE IF r.route = "movie" THEN
    IF ~ValidMovieParams(r)
      THEN Done(r, Sent(400, "json", "Invalid IMDb ID format. Must be in format: ttXXXXXXX",
                        "", <<>>), 0, Pending)
      ELSE Awaiting(r)
  ELSE
    IF TvParamsError(r) # ""
      THEN Done(r, Sent(400, "json", TvParamsError(r), "", <<>>), 0, Pending)
      ELSE Awaiting(r)

\* a request arrives at the listening server
Receive(s, requests) ==
  /\ startPc = "listening"
  /\ req[s].pc = "idle"
  /\ \E r \in requests : req' = [req EXCEPT ![s] = HandleRequest(r)]
  /\ UNCHANGED <<MANIFEST_URL, ADDON_BASE_URL, ADDON_MANIFEST, startPc,
                 resolveIn, resolveOut, m3uIn, m3uOut>>

\* the upstream exchange of a request settles and its handler runs to its end
FetchSettled(s, outcomes) ==
  /\ req[s].pc = "awaitFetch"
  /\ \E outcome \in outcomes :
       LET fetched == fetchStremioStreams(outcome) IN
       req' = [req EXCEPT ![s] =
                 Done(req[s].request, RouteAfterFetch(req[s].request, fetched), 1, fetched)]
  /\ UNCHANGED <<MANIFEST_URL, ADDON_BASE_URL, ADDON_MANIFEST, startPc,
                 resolveIn, resolveOut, m3uIn, m3uOut>>

\* the reply is on the wire and the request is over
Close(s) ==
  /\ req[s].pc = "done"
  /\ req' = [req EXCEPT ![s] = Idle]
  /\ UNCHANGED <<MANIFEST_URL, ADDON_BASE_URL, ADDON_MANIFEST, startPc,
                 resolveIn, resolveOut, m3uIn, m3uOut>>

(* Inputs *)

ImdbChars == {"t", "1", "a"}
Imdbs == StringsUpTo(ImdbChars, MaxImdbLen)
Str_tt1 == <<"t", "t", "1">>
NumChars == {"1", ".", "-", "e", " ", "a"}
NumStrs == StringsUpTo(NumChars, MaxNumLen)
FewNums == { <<"1">>, <<"a">> }

Queries == {NoQuery} \cup {FormatQuery(f) : f \in {Undefined, Str_m3u8, <<"M", "3", "U", "8">>, <<"m", "k", "v">>}}

Request(route, imdb, season, episode, query) ==
  [route |-> route, imdb |-> imdb, season |-> season, episode |-> episode, query |-> query]

\* every route; each path parameter over all its strings while the others of
\* the route range over a few
Requests ==
  {Request(rt, Undefined, Undefined, Undefined, q) : rt \in {"root", "health", "info"}, q \in Queries}
  \cup {Request("movie", i, Undefined, Undefined, q) : i \in Imdbs, q \in Queries}
  \cup {Request("tv", i, <<"1">>, <<"1">>, q) : i \in Imdbs, q \in Queries}
  \cup {Request("tv", Str_tt1, n, m, q) : n \in NumStrs, m \in FewNums, q \in Queries}
  \cup {Request("tv", Str_tt1, m, n, q) : n \in NumStrs, m \in FewNums, q \in Queries}

\* the URLs that answer a probe; the code never probes
LiveUrls == {"http://live.example/b.mkv"}
ServeStreams ==
  { [url |-> "http://dead.example/a.mp4", title |-> SourceA, name |-> <<"N">>],
    [url |-> "http://live.example/b.mkv", title |-> SourceB, name |-> Undefined] }

Bodies ==
  {JsonNull, [type |-> "object", hasStreams |-> FALSE, streams |-> <<>>]}
  \cup {[type |-> "object", hasStreams |-> TRUE, streams |-> l] :
          l \in StreamLists(ServeStreams, MaxStreams)}
FetchOutcomes ==
  {[kind |-> k] : k \in {"rejected", "notOk", "badJson"}}
  \cup {[kind |-> "json", body |-> b] : b \in Bodies}

----------------------------------------------------------------------------
(* Specifications *)

\* direct calls of getBaseUrlFromManifest
InitResolve ==
  /\ InitProcess /\ InitNoM3U
  /\ MANIFEST_URL = Undefined
  /\ resolveIn \in ManifestUrls
  /\ resolveOut = Pending
NextResolve == Resolve \/ ResolveAgain
SpecResolve == InitResolve /\ [][NextResolve]_vars

\* the start-up of the process, over every manifest URL
InitStart ==
  /\ InitProcess /\ InitNoResolve /\ InitNoM3U
  /\ MANIFEST_URL \in ManifestUrls \cup {Undefined, <<>>}
NextStart == Start \/ ManifestFetched \/ ManifestParsed \/ Listen
SpecStart == InitStart /\ [][NextStart]_vars

\* direct calls of streamsToM3U8
InitM3U ==
  /\ InitProcess /\ InitNoResolve
  /\ MANIFEST_URL = Undefined
  /\ m3uIn \in StreamLists(M3UStreams, MaxStreams)
  /\ m3uOut = Pending
NextM3U == Convert
SpecM3U == InitM3U /\ [][NextM3U]_vars

\* the process from its start, serving one request at a time
ServeManifestUrls == {Undefined, Origin \o ManifestSuffix, Origin \o <<"/", "p">>}
Init ==
  /\ InitProcess /\ InitNoResolve /\ InitNoM3U
  /\ MANIFEST_URL \in ServeManifestUrls
Next ==
  \/ Start
  \/ ManifestFetched
  \/ ManifestParsed
  \/ Listen
  \/ Receive(1, Requests)
  \/ FetchSettled(1, FetchOutcomes)
  \/ Close(1)
Spec == Init /\ [][Next]_vars

\* two concurrent requests to the stream routes of a started process
PairFormats ==
  {Undefined, Str_m3u8, <<"M", "3", "U", "8">>, <<"m", "k", "v">>, <<"M", "K", "V">>}
PairRequests ==
  {Request("movie", Str_tt1, Undefined, Undefined, FormatQuery(f)) : f \in PairFormats}
  \cup {Request("tv", Str_tt1, <<"1">>, <<"2">>, FormatQuery(f)) : f \in PairFormats}
InitPair ==
  /\ InitProcess /\ InitNoResolve /\ InitNoM3U
  /\ MANIFEST_URL = Origin \o ManifestSuffix
NextPair ==
  \/ Start
  \/ ManifestFetched
  \/ ManifestParsed
  \/ Listen
  \/ \E s \in Slots : Receive(s, PairRequests)
  \/ \E s \in Slots : FetchSettled(s, FetchOutcomes)
  \/ \E s \in Slots : Close(s)
SpecPair == InitPair /\ [][NextPair]_vars

----------------------------------------------------------------------------
(* The properties *)

Configured == Truthy(ADDON_BASE_URL)
IsDone(s) == req[s].pc = "done"
InFlight(s) == req[s].pc # "idle"
\* the upstream exchange of request s ended with a parsed JSON body
GotBody(s) == IsDone(s) /\ req[s].fetched # Pending /\ ~req[s].fetched.threw
BodyOf(s) == req[s].fetched.value
\* ^tt\d+$ as the interface states it
IsImdbId(x) ==
  Len(x) >= 3 /\ SubSeq(x, 1, 2) = <<"t", "t">> /\ AllDigits(SubSeq(x, 3, Len(x)))
\* a string of decimal digits
IsDigitString(x) == Len(x) >= 1 /\ AllDigits(x)
\* the input with its surrounding white space and one trailing slash removed
\* ends in /manifest.json
Resolvable(url) == EndsWith(StripTrailingSlash(Trim(url)), ManifestSuffix)
EndsInManifestJson(url) ==
  EndsWith(url, ManifestSuffix) \/ EndsWith(url, ManifestSuffix \o <<"/">>)
\* x is y followed by /manifest.json and at most one slash
IsBasePlusSuffix(x, y) == x = y \o ManifestSuffix \/ x = y \o ManifestSuffix \o <<"/">>

UpperLetters ==
  <<"A", "B", "C", "D", "E", "F", "G", "H", "I", "J", "K", "L", "M", "N", "O", "P",
    "Q", "R", "S", "T", "U", "V", "W", "X", "Y", "Z">>
LowerLetters ==
  <<"a", "b", "c", "d", "e", "f", "g", "h", "i", "j", "k", "l", "m", "n", "o", "p",
    "q", "r", "s", "t", "u", "v", "w", "x", "y", "z">>
LowerChar(c) ==
  IF \E i \in 1..26 : UpperLetters[i] = c
    THEN LowerLetters[CHOOSE i \in 1..26 : UpperLetters[i] = c]
    ELSE c
ToLowerCase(x) == [i \in 1..Len(x) |-> LowerChar(x[i])]

\* C1 (as claimed): every finished request to /, /health or /info was answered
\* 200, configured or not, and every finished request to another route of an
\* unconfigured service was answered 503 'Addon not configured'.
C1_SkipRoutesAlwaysAnswer ==
  \A s \in Slots : IsDone(s) =>
    LET r == req[s].request IN
    /\ r.route \in {"root", "health", "info"} => req[s].reply.code = 200
    /\ (r.route \in {"movie", "tv"} /\ ~Configured) =>
         (req[s].reply.code = 503 /\ req[s].reply.error = "Addon not configured")

\* C2 (as claimed): for an argument that ends in /manifest.json, with or without
\* one trailing slash, the resolver returns the argument without that suffix
\* and slash, nothing else changed.
C2_StripsOnlySuffix ==
  (resolveOut # Pending /\ EndsInManifestJson(resolveIn)) =>
    (~resolveOut.threw /\ IsBasePlusSuffix(resolveIn, resolveOut.value))

\* C2 (amended): for an argument that, once its surrounding white space is
\* trimmed, ends in /manifest.json with or without one trailing slash, the
\* resolver returns the trimmed argument without that suffix and slash.
C2_StripsSuffixOfTrimmed ==
  (resolveOut # Pending /\ EndsInManifestJson(Trim(resolveIn))) =>
    (~resolveOut.threw /\ IsBasePlusSuffix(Trim(resolveIn), resolveOut.value))

\* C2 witness: " h://a/manifest.json/" resolved to "h://a"
C2_Witness ==
  /\ resolveIn = <<" ">> \o Origin \o ManifestSuffix \o <<"/">>
  /\ resolveOut = Returned(Origin)

\* C3 (as claimed): with a manifest URL that does not end in /manifest.json
\* (with or without one trailing slash), start() leaves both globals unassigned.
C3_NoSuffixStaysUnset ==
  (Truthy(MANIFEST_URL) /\ ~EndsInManifestJson(MANIFEST_URL)) =>
    (ADDON_BASE_URL = Null /\ ADDON_MANIFEST = JsonNull)

\* C3 (amended): with no manifest URL, or with one that does not end in
\* /manifest.json once its surrounding white space and one trailing slash are
\* removed, both globals are unassigned in every state of start(), the one in
\* which the server listens included.
C3_UnresolvableStaysUnset ==
  (~Truthy(MANIFEST_URL) \/ ~Resolvable(MANIFEST_URL)) =>
    (ADDON_BASE_URL = Null /\ ADDON_MANIFEST = JsonNull)

\* C3 witness: the manifest of "h://a/p/manifest.json/p" was fetched and parsed,
\* and the server listens, unconfigured
C3_Witness ==
  /\ MANIFEST_URL = Origin \o <<"/", "p">> \o ManifestSuffix \o <<"/", "p">>
  /\ startPc = "listening"
  /\ ADDON_BASE_URL = Null

\* C4: on a configured service a request to the movie or the episode route whose
\* imdb parameter does not match ^tt\d+$ has made no upstream call and is
\* answered 400, once.
C4_BadImdbIs400 ==
  \A s \in Slots :
    (InFlight(s) /\ Configured /\ req[s].request.route \in {"movie", "tv"}
       /\ ~IsImdbId(req[s].request.imdb)) =>
      /\ req[s].upstreamCalls = 0
      /\ IsDone(s)
      /\ req[s].reply.code = 400
      /\ req[s].replies = 1

\* C4 witness: /tv/tt1a/1/1 on a configured service was answered 400
C4_Witness ==
  /\ Configured
  /\ IsDone(1)
  /\ req[1].request.route = "tv"
  /\ req[1].request.imdb = <<"t", "t", "1", "a">>
  /\ req[1].reply.code = 400

\* C5 (as claimed): on a configured service a request to the episode route with
\* a valid imdb id whose season or episode is not a string of decimal digits
\* makes no upstream call and is answered 400.
C5_NonDigitsIs400 ==
  \A s \in Slots :
    (InFlight(s) /\ Configured /\ req[s].request.route = "tv"
       /\ IsImdbId(req[s].request.imdb)
       /\ ~(IsDigitString(req[s].request.season) /\ IsDigitString(req[s].request.episode))) =>
      /\ req[s].upstreamCalls = 0
      /\ IsDone(s) /\ req[s].reply.code = 400

NoneReachable(streams) == \A i \in 1..Len(streams) : streams[i].url \notin LiveUrls
HasStreams(s) ==
  GotBody(s) /\ BodyOf(s) # JsonNull /\ BodyOf(s).hasStreams /\ BodyOf(s).streams # <<>>

Markers(title) ==
  {SubSeq(title, i, RunEnd(title, i, Digits) + 1) :
     i \in {k \in 1..Len(title) : MatchesAt(title, k, Digits, <<"p">>)}}
  \cup (IF Includes(title, Str_4K) THEN {Str_4K} ELSE {})
\* the tier table of C8
Tier(marker) ==
  IF Includes(marker, Str_2160p) \/ Includes(marker, Str_4K) THEN 20000000
  ELSE IF Includes(marker, Str_1080p) THEN 8000000
  ELSE IF Includes(marker, Str_720p) THEN 5000000
  ELSE IF Includes(marker, Str_480p) THEN 2500000
  ELSE 5000000
\* the bandwidths the tier table allows for a title: that of any marker the
\* title holds, the default when it holds none
TierBandwidths(title) ==
  IF Markers(title) = {} THEN {5000000} ELSE {Tier(m) : m \in Markers(title)}

\* C8 (as claimed): the playlist is the header and then, per stream in input
\* order, an #EXTINF line, an #EXT-X-STREAM-INF line whose bandwidth the tier
\* table gives for the title's marker (2160p or 4K: 20000000, 1080p: 8000000,
\* 720p: 5000000, 480p: 2500000, none: 5000000), and the stream's URL.
C8_PlaylistByTierTable ==
  m3uOut # Pending =>
    LET out == m3uOut.content IN
    /\ Len(out) = 3 + 4 * Len(m3uIn)
    /\ SubSeq(out, 1, 3) = M3U8Header
    /\ \A i \in 1..Len(m3uIn) :
         /\ out[4 * i].kind = "#EXTINF"
         /\ out[4 * i + 1].kind = "#EXT-X-STREAM-INF"
         /\ out[4 * i + 1].bandwidth \in TierBandwidths(StreamTitle(m3uIn[i], i - 1))
         /\ out[4 * i + 2] = [kind |-> "url", url |-> m3uIn[i].url]

\* C9 (as claimed): two finished requests to the same route with the same path
\* parameters and the same upstream outcome, whose format values differ only
\* in letter case, got the same kind of response.
C9_FormatCaseInsensitive ==
  \A s, t \in Slots :
    (/\ IsDone(s) /\ IsDone(t)
     /\ req[s].request.route = req[t].request.route
     /\ req[s].request.imdb = req[t].request.imdb
     /\ req[s].request.season = req[t].request.season
     /\ req[s].request.episode = req[t].request.episode
     /\ req[s].fetched = req[t].fetched
     /\ ToLowerCase(Format(req[s].request)) = ToLowerCase(Format(req[t].request)))
    => /\ req[s].reply.code = req[t].reply.code
       /\ req[s].reply.type = req[t].reply.type

\* C10: a request awaiting the upstream has sent nothing; a finished request was
\* answered exactly once and threw nothing out of its handler; and when the
\* upstream fetch failed, the answer is 500 with an error text and the
\* message of the failure.
C10_FetchFailureIs500 ==
  \A s \in Slots :
    /\ req[s].pc = "awaitFetch" => req[s].replies = 0
    /\ IsDone(s) => (req[s].replies = 1 /\ ~req[s].escaped)
    /\ (IsDone(s) /\ req[s].fetched # Pending /\ req[s].fetched.threw) =>
         /\ req[s].reply.code = 500
         /\ req[s].reply.type = "json"
         /\ req[s].reply.error =
              (IF req[s].request.route = "movie" THEN "Failed to fetch movie streams"
               ELSE "Failed to fetch TV show streams")
         /\ req[s].reply.message = req[s].fetched.message

\* C10 witness: the upstream answered /tv/tt1/1/1 with a status that is not ok,
\* and the route answered 500 with that failure's message
C10_Witness ==
  /\ IsDone(1)
  /\ req[1].request.route = "tv"
  /\ req[1].fetched = Threw("Error fetching Stremio addon: Failed to fetch streams: Not Found")
  /\ req[1].reply.code = 500
  /\ req[1].reply.message = "Error fetching Stremio addon: Failed to fetch streams: Not Found"

====
